---- MODULE Spec2Model ----
(***************************************************************************)
(* Model of the chat orchestration of the AI character chat application    *)
(* (App component, src/types.ts) together with the send gate of the        *)
(* ChatWindow component (src/unnamed/part_003).                            *)
(*                                                                         *)
(* React state is committed atomically with the handler step that sets it: *)
(* every action below is one event-loop task (a click, a timer callback,   *)
(* the continuation of an awaited model call) followed by the re-render    *)
(* and the effects that the state change triggers.  The callbacks of the   *)
(* timers go through latestHandle...Ref, so a firing timer reads the       *)
(* state of the latest render; the continuation of an awaited call reads   *)
(* the values its closure captured when the call was issued.               *)
(* Message ids (crypto.randomUUID()) are left out: they are fresh and no   *)
(* operation modelled here reads them.                                     *)
(*                                                                         *)
(* Spec is the conversation scheduler.  The other specifications exercise  *)
(* one component each from the states it can be used in: SpecGateway the   *)
(* decoding of a reply, SpecPersona the persona form and                   *)
(* handleSaveCharacter, SpecAnalysis handleAnalyzeUser, SpecVoice          *)
(* getCharacterVoice.                                                      *)
(***************************************************************************)
EXTENDS Integers, Sequences, FiniteSets, TLC

VARIABLES
    characters,                 \* the list of personas
    activeCharacterId,          \* an id, or NoChar for null
    chats,                      \* Record<string, Message[]>: a function on some ids
    isLoading,                  \* the busy flag
    chatMode,                   \* "normal" | "game"
    inactivityTimerRef,         \* handle held by the ref: NullRef, StaleRef or a pending handle
    proactiveGreetingTimerRef,  \* the same for the greeting timer
    followUpSentRef,            \* the "follow-up already sent" guard
    timers,                     \* timers armed with setTimeout and neither fired nor cleared
    inflight,                   \* model calls awaiting their reply, with what their closure captured
    ev,                         \* the last event handled (observation only, read by no action)
    editingCharacter,           \* the persona handed to CharacterModal, or NoPersona for null
    isModalOpen,                \* CharacterModal is shown
    form,                       \* the fields of CharacterModal
    notice,                     \* the text of the last alert(), or NoNotice
    analysisResult,             \* the stored report, or JsNull
    isAnalyzing,
    isAnalysisModalOpen,
    analysisCall,               \* the analysis request awaiting its reply, or NoCall
    voices,                     \* ChatWindow: the list of speech synthesis voices
    utteranceVoice,             \* the voice given to the last utterance, or NoVoice
    speakingMessageId,          \* the position of the message being spoken, or NoMessage
    speechSynthesis,            \* window.speechSynthesis: the utterance being spoken and
                                \* the cancelled ones whose end/error event is not yet delivered
    localStorage,               \* the items 'characters' and 'chats' of window.localStorage
    isDynamicQuizModalOpen,     \* DynamicQuizModal is mounted
    view,                       \* DynamicQuizModal: 'concept' | 'quiz' | 'loading'
    loadingText,
    concept,
    questions,                  \* the generated QuizQuestion[]
    answers,                    \* { [key: number]: string }: a function on some indices
    currentQuestionIndex,       \* 0-based
    error,                      \* the error text of DynamicQuizModal, or NoError for null
    quizCalls                   \* generateContent calls of the quiz awaiting their reply

vars == <<characters, activeCharacterId, chats, isLoading, chatMode,
          inactivityTimerRef, proactiveGreetingTimerRef, followUpSentRef,
          timers, inflight, ev>>

vars_but_ev ==
    <<characters, activeCharacterId, chats, isLoading, chatMode, inactivityTimerRef,
      proactiveGreetingTimerRef, followUpSentRef, timers, inflight>>
modalVars == <<editingCharacter, isModalOpen, form>>
analysisVars == <<analysisResult, isAnalyzing, isAnalysisModalOpen, analysisCall>>
speechVars == <<voices, utteranceVoice, speakingMessageId, speechSynthesis>>
quizVars == <<isDynamicQuizModalOpen, view, loadingText, concept, questions, answers,
              currentQuestionIndex, error, quizCalls>>
allVars == <<vars, modalVars, analysisVars, speechVars, notice, localStorage, quizVars>>

----------------------------------------------------------------------------
(* Bounds and universes *)

\* Total number of messages the conversations may hold.
MaxMsgs == 3

\* Number of fields of the JSON objects SpecGateway decodes.
MaxPairs == 2

\* Number of personas SpecPersona saves before the modal stays closed.
MaxSaved == 1

\* Number of messages the user has sent when SpecAnalysis starts.
MaxRounds == 2

\* Number of speech synthesis voices the browser offers in SpecVoice.
MaxVoices == 2

\* Number of questions a generated quiz holds at most in SpecQuiz.
MaxQuestions == 2

Ids == {"a", "b"}
NoChar == "none"
Modes == {"normal", "game"}

\* Values of a timer ref: null, the handle of a timer that has fired or was
\* cleared (truthy, clearTimeout on it does nothing), or a pending handle >= 1.
NullRef == 0
StaleRef == 0 - 1

NoPersona == [id |-> NoChar]
NoNotice == "none"
NoCall == [id |-> NoChar, history |-> <<>>]
NoVoice == [name |-> <<>>]
NoMessage == 0

----------------------------------------------------------------------------
(* JavaScript values and JSON.parse over a small lexicon of tokens *)

Undefined == [t |-> "undefined"]
JsNull == [t |-> "null"]
Str(s) == [t |-> "string", v |-> s]
Arr(a) == [t |-> "array", v |-> a]
Obj(f) == [t |-> "object", v |-> f]

\* x || y takes y for undefined, null and the empty string.
Falsy(x) == x.t \in {"undefined", "null"} \/ (x.t = "string" /\ x.v = <<>>)

Keys == {"dialogue", "thought", "action", "user_response_options"}
ScalarTokens == {"s:hi", "s:", "s:hm", "arr", "null"}

TokenValue(tok) ==
    CASE tok = "s:hi" -> Str(<<"hi">>)
      [] tok = "s:hm" -> Str(<<"hm">>)
      [] tok = "s:"   -> Str(<<>>)
      [] tok = "arr"  -> Arr(<<"yes", "no">>)
      [] OTHER        -> JsNull

\* A body is a sequence of tokens.  It is JSON when it is one scalar, or
\* "{" (key scalar)* "}"; a repeated key keeps its last value.
JSONParse(body) ==
    LET n == Len(body) - 2
        pairs == 1 .. (n \div 2)
        last(S) == CHOOSE k \in S : \A j \in S : j <= k
        field(key) ==
            LET ks == {k \in pairs : body[2 * k] = key}
            IN  IF ks = {} THEN Undefined ELSE TokenValue(body[2 * last(ks) + 1])
    IN  IF Len(body) = 1 /\ body[1] \in ScalarTokens
            THEN [ok |-> TRUE, val |-> TokenValue(body[1])]
        ELSE IF /\ Len(body) >= 2
                /\ body[1] = "{"
                /\ body[Len(body)] = "}"
                /\ n % 2 = 0
                /\ \A k \in pairs : body[2 * k] \in Keys /\ body[2 * k + 1] \in ScalarTokens
            THEN [ok |-> TRUE, val |-> Obj([key \in Keys |-> field(key)])]
        ELSE [ok |-> FALSE, val |-> Undefined]

\* Reply bodies the model call may return: the empty body, plain text, a
\* truncated object, an object without and one with suggested replies.
Bodies ==
    { <<>>,
      <<"junk">>,
      <<"{", "dialogue", "s:hi">>,
      <<"{", "dialogue", "s:hi", "}">>,
      <<"{", "dialogue", "s:hi", "user_response_options", "arr", "}">> }

\* The token sequences made of at most n fields (key, scalar).
RECURSIVE Members(_)
Members(n) ==
    IF n = 0 THEN { <<>> }
    ELSE LET M == Members(n - 1)
         IN  M \cup { m \o <<k, v>> : m \in M, k \in Keys, v \in ScalarTokens }

\* The reply bodies of SpecGateway: every object of at most MaxPairs
\* fields, the same with its closing brace cut off, the scalars, plain
\* text and the empty body.
GatewayBodies ==
    { <<"{">> \o m \o <<"}">> : m \in Members(MaxPairs) }
        \cup { <<"{">> \o m : m \in Members(MaxPairs) }
        \cup { <<tok>> : tok \in ScalarTokens }
        \cup { <<>>, <<"junk">> }

UserTexts == { <<"hello">> }

Ellipsis == Str(<<"...">>)
SendFallback == Str(<<"I seem to be having trouble thinking straight...">>)
GreetingFallback == Str(<<"Hello there.">>)
FollowUpFallback == Str(<<"Hmm..?">>)
ErrorText == Str(<<"Oops! Something went wrong. Please check your API key and try again.">>)

Fallback(kind) ==
    CASE kind = "send"     -> SendFallback
      [] kind = "greeting" -> GreetingFallback
      [] OTHER             -> FollowUpFallback

UserMessage(text) ==
    [role |-> "user", text |-> Str(text), thought |-> Undefined,
     action |-> Undefined, userResponseOptions |-> Undefined]

ErrorMessage ==
    [role |-> "model", text |-> ErrorText, thought |-> Undefined,
     action |-> Undefined, userResponseOptions |-> Undefined]

\* DecodeReply with the catch branch answering the placeholder instead of
\* the raw body.
DecodeReplyPlaceholder(kind, body) ==
    LET p == JSONParse(body)
        get(key) == IF p.val.t = "object" THEN p.val.v[key] ELSE Undefined
    IN  [role |-> "model",
         text |-> IF p.ok /\ ~Falsy(get("dialogue")) THEN get("dialogue") ELSE Ellipsis,
         thought |-> IF p.ok THEN get("thought") ELSE Undefined,
         action |-> IF p.ok THEN get("action") ELSE Undefined,
         userResponseOptions |-> IF p.ok THEN get("user_response_options") ELSE Undefined]

\* DecodeReply without the placeholder for a missing or empty dialogue.
DecodeReplyNoEllipsis(kind, body) ==
    LET p == JSONParse(body)
        get(key) == IF p.val.t = "object" THEN p.val.v[key] ELSE Undefined
    IN  IF p.ok /\ p.val.t # "null"
            THEN [role |-> "model",
                  text |-> get("dialogue"),
                  thought |-> get("thought"),
                  action |-> get("action"),
                  userResponseOptions |-> get("user_response_options")]
            ELSE [role |-> "model",
                  text |-> IF body = <<>> THEN Fallback(kind) ELSE Str(body),
                  thought |-> Undefined,
                  action |-> Undefined,
                  userResponseOptions |-> Undefined]

\* The inner try/catch of the three flows: JSON.parse, then the field
\* mapping; reading a property of null throws and lands in the catch too.
DecodeReply(kind, body) ==
    LET p == JSONParse(body)
        get(key) == IF p.val.t = "object" THEN p.val.v[key] ELSE Undefined
    IN  IF p.ok /\ p.val.t # "null"
            THEN [role |-> "model",
                  text |-> IF Falsy(get("dialogue")) THEN Ellipsis ELSE get("dialogue"),
                  thought |-> get("thought"),
                  action |-> get("action"),
                  userResponseOptions |-> get("user_response_options")]
            ELSE [role |-> "model",
                  text |-> IF body = <<>> THEN Fallback(kind) ELSE Str(body),
                  thought |-> Undefined,
                  action |-> Undefined,
                  userResponseOptions |-> Undefined]

----------------------------------------------------------------------------
(* Helpers on the state *)

\* The ids of the personas of the list.
CharacterIds == {characters[i].id : i \in DOMAIN characters}

History(id) == IF id \in DOMAIN chats THEN chats[id] ELSE <<>>

RECURSIVE SumLen(_, _)
SumLen(c, S) ==
    IF S = {} THEN 0
    ELSE LET id == CHOOSE x \in S : TRUE
         IN  Len(c[id]) + SumLen(c, S \ {id})

TotalMsgs == SumLen(chats, DOMAIN chats)
Room(k) == TotalMsgs + k <= MaxMsgs

SetChat(c, id, msgs) == [x \in DOMAIN c \cup {id} |-> IF x = id THEN msgs ELSE c[x]]

\* clearTimeout(handle)
ClearTimeout(ts, handle) == {t \in ts : t.h # handle}

\* A ref after the timer it names has fired or was cleared without the ref
\* being reset.
Dead(ref) == IF ref = NullRef THEN NullRef ELSE StaleRef

NewHandle(ts) == CHOOSE h \in 1 .. (Cardinality(ts) + 1) : \A t \in ts : t.h # h

Pending(kind) == {t \in timers : t.kind = kind}

\* ChatWindow is rendered only for an existing active persona.
ChatWindowShown == activeCharacterId \in CharacterIds

HasOptions(m) ==
    /\ m.role = "model"
    /\ m.userResponseOptions.t = "array"
    /\ Len(m.userResponseOptions.v) > 0

\* [...messages].reverse().find(...): the options of the latest model
\* message that has some, or the empty sequence.
LatestOptions(msgs) ==
    LET idx == {i \in 1 .. Len(msgs) : HasOptions(msgs[i])}
    IN  IF idx = {} THEN <<>>
        ELSE msgs[CHOOSE i \in idx : \A j \in idx : j <= i].userResponseOptions.v

----------------------------------------------------------------------------
(* Effects run after a render *)

\* RunEffects with the greeting effect arming for every active persona,
\* whatever its conversation holds.
RunEffectsArmAlways(activeChanged, active, c, ts, inactRef, greetRef) ==
    LET ts1 == IF activeChanged THEN ClearTimeout(ts, inactRef) ELSE ts
        ts2 == ClearTimeout(ts1, greetRef)
        h == NewHandle(ts2)
    IN  [timers |-> IF active # NoChar
                    THEN ts2 \cup {[h |-> h, kind |-> "greeting", owner |-> active]}
                    ELSE ts2,
         inactRef |-> IF activeChanged THEN Dead(inactRef) ELSE inactRef,
         greetRef |-> IF active # NoChar THEN h ELSE Dead(greetRef)]

\* The two effects keyed on activeCharacterId and [activeCharacterId, chats].
\* activeChanged: the cleanup of the timer effect clears both timers.
\* Always (either dependency changed): the greeting effect's cleanup and
\* body clear the greeting timer, and the body arms a new one when the
\* active conversation is empty or absent.
RunEffects(activeChanged, active, c, ts, inactRef, greetRef) ==
    LET ts1 == IF activeChanged THEN ClearTimeout(ts, inactRef) ELSE ts
        inact1 == IF activeChanged THEN Dead(inactRef) ELSE inactRef
        ts2 == ClearTimeout(ts1, greetRef)
        arm == active # NoChar /\ (active \notin DOMAIN c \/ Len(c[active]) = 0)
        h == NewHandle(ts2)
    IN  [timers |-> IF arm THEN ts2 \cup {[h |-> h, kind |-> "greeting", owner |-> active]}
                    ELSE ts2,
         inactRef |-> inact1,
         greetRef |-> IF arm THEN h ELSE Dead(greetRef)]

----------------------------------------------------------------------------
(* Initial state: two stored personas, loaded at mount *)

StoredPersona(id) ==
    [id |-> id, name |-> <<"n">>, personality |-> <<"p">>, purpose |-> <<"g">>,
     gender |-> "neutral", language |-> <<"en", "US">>]

StoredCharacters == << StoredPersona("a"), StoredPersona("b") >>

\* useState('') ... useState('en-US'): the form of a new persona.
EmptyForm ==
    [name |-> <<>>, personality |-> <<>>, purpose |-> <<>>,
     gender |-> "neutral", language |-> <<"en", "US">>]

\* The state outside the conversation scheduler, as constructed.
ModalClosed ==
    /\ editingCharacter = NoPersona
    /\ isModalOpen = FALSE
    /\ form = EmptyForm

AnalysisIdle ==
    /\ analysisResult = JsNull
    /\ isAnalyzing = FALSE
    /\ isAnalysisModalOpen = FALSE
    /\ analysisCall = NoCall

NoError == "null"

\* useState<{ [key: number]: string }>({})
NoAnswers == [i \in {} |-> ""]

\* DynamicQuizModal is not mounted and no call of it is awaited; its state
\* is written as useState constructs it.
QuizIdle ==
    /\ isDynamicQuizModalOpen = FALSE
    /\ view = "concept"
    /\ loadingText = ""
    /\ concept = <<>>
    /\ questions = <<>>
    /\ answers = NoAnswers
    /\ currentQuestionIndex = 0
    /\ error = NoError
    /\ quizCalls = {}

\* localStorage.getItem of a key that was never set.
NullItem == [kind |-> "null", value |-> <<>>]

\* An item whose text JSON.parse rejects.
CorruptItem == [kind |-> "corrupt", value |-> <<>>]

\* JSON.stringify(value): a text JSON.parse reads back as the same list of
\* personas or map of conversations (their fields are strings and arrays;
\* a field that is undefined is left out and reads as undefined again).
JSONStringify(value) == [kind |-> "json", value |-> value]

\* What the two save effects leave in the store for the state (cs, ch).
Stored(cs, ch) == [characters |-> JSONStringify(cs), chats |-> JSONStringify(ch)]

\* The store holds the state the last render committed.
Persisted == localStorage = Stored(characters, chats)

\* The save effects on [characters] and on [chats], run after the commit.
Persist == localStorage' = Stored(characters', chats')

\* window.speechSynthesis with nothing spoken and no event to deliver.
SynthesisIdle == [speaking |-> NoMessage, cancelled |-> {}]

SpeechIdle ==
    /\ voices = <<>>
    /\ utteranceVoice = NoVoice
    /\ speakingMessageId = NoMessage
    /\ speechSynthesis = SynthesisIdle

Init ==
    /\ characters = StoredCharacters
    /\ chats \in { [id \in Ids |-> <<>>], [id \in {"a"} |-> <<>>] }
    /\ activeCharacterId = NoChar
    /\ isLoading = FALSE
    /\ chatMode = "normal"
    /\ inactivityTimerRef = NullRef
    /\ proactiveGreetingTimerRef = NullRef
    /\ followUpSentRef = FALSE
    /\ timers = {}
    /\ inflight = {}
    /\ ev = [op |-> "init", id |-> NoChar, call |-> "none"]
    /\ ModalClosed
    /\ AnalysisIdle
    /\ SpeechIdle
    /\ notice = NoNotice
    /\ Persisted
    /\ QuizIdle

----------------------------------------------------------------------------
(* Operations *)

Event(op, id, call) == [op |-> op, id |-> id, call |-> call]

\* The responseSchema of getModelConfig: its properties and its required list.
getModelConfig(mode) ==
    [properties |-> IF mode = "game" THEN Keys ELSE Keys \ {"user_response_options"},
     required |-> {"dialogue"}]

\* What the closure of a call holds, and the config given to ai.chats.create.
Call(kind, id, history, base) ==
    [kind |-> kind, id |-> id, mode |-> chatMode, history |-> history, base |-> base,
     config |-> getModelConfig(chatMode)]

\* Sidebar onSelectCharacter = setActiveCharacterId; selecting the persona
\* that is already active sets the same state and renders nothing.
SelectCharacter(id) ==
    /\ id \in CharacterIds
    /\ id # activeCharacterId
    /\ activeCharacterId' = id
    /\ LET e == RunEffects(TRUE, id, chats, timers,
                           inactivityTimerRef, proactiveGreetingTimerRef)
       IN  /\ timers' = e.timers
           /\ inactivityTimerRef' = e.inactRef
           /\ proactiveGreetingTimerRef' = e.greetRef
    /\ ev' = Event("select", id, "none")
    /\ UNCHANGED <<characters, chats, isLoading, chatMode, followUpSentRef, inflight>>

handleDeleteCharacter(id) ==
    /\ id \in CharacterIds
    /\ characters' = SelectSeq(characters, LAMBDA c : c.id # id)
    /\ LET chats1 == [x \in DOMAIN chats \ {id} |-> chats[x]]
           active1 == IF activeCharacterId = id THEN NoChar ELSE activeCharacterId
           e == RunEffects(activeCharacterId = id, active1, chats1, timers,
                           inactivityTimerRef, proactiveGreetingTimerRef)
       IN  /\ chats' = chats1
           /\ activeCharacterId' = active1
           /\ timers' = e.timers
           /\ inactivityTimerRef' = e.inactRef
           /\ proactiveGreetingTimerRef' = e.greetRef
    /\ ev' = Event("delete", id, "none")
    /\ UNCHANGED <<isLoading, chatMode, followUpSentRef, inflight>>

\* The Chat / Game buttons of the ChatWindow header.
onSetChatMode(m) ==
    /\ ChatWindowShown
    /\ m \in Modes
    /\ m # chatMode
    /\ chatMode' = m
    /\ ev' = Event("mode", activeCharacterId, "none")
    /\ UNCHANGED <<characters, activeCharacterId, chats, isLoading,
                   inactivityTimerRef, proactiveGreetingTimerRef, followUpSentRef,
                   timers, inflight>>

\* The input without its isLoading gate.
InputAlwaysEnabled == TRUE

\* ChatWindow.handleSubmit and handleOptionClick: the input sends only
\* while isLoading is false.
InputEnabled == ~isLoading

\* What the input can submit: typed text in normal mode, one of the
\* offered options in game mode.
Submittable ==
    IF chatMode = "normal" THEN UserTexts
    ELSE LET opts == LatestOptions(History(activeCharacterId))
         IN  { <<opts[i]>> : i \in 1 .. Len(opts) }

\* handleSendMessage clears the timers its two refs name.
SendClearedTimers ==
    ClearTimeout(ClearTimeout(timers, inactivityTimerRef), proactiveGreetingTimerRef)

handleSendMessage(messageText) ==
    /\ ChatWindowShown
    /\ InputEnabled
    /\ messageText \in Submittable
    /\ Room(2)
    /\ followUpSentRef' = FALSE
    /\ LET currentHistory == History(activeCharacterId)
           updatedHistory == Append(currentHistory, UserMessage(messageText))
           chats1 == SetChat(chats, activeCharacterId, updatedHistory)
           e == RunEffects(FALSE, activeCharacterId, chats1, SendClearedTimers,
                           NullRef, NullRef)
       IN  /\ chats' = chats1
           /\ timers' = e.timers
           /\ inactivityTimerRef' = e.inactRef
           /\ proactiveGreetingTimerRef' = e.greetRef
           /\ inflight' = inflight \cup
                  {Call("send", activeCharacterId, currentHistory, updatedHistory)}
    /\ isLoading' = TRUE
    /\ ev' = Event("send", activeCharacterId, "send")
    /\ UNCHANGED <<characters, activeCharacterId, chatMode>>

\* The early returns of handleProactiveGreeting.
GreetingBlocked ==
    \/ isLoading
    \/ activeCharacterId = NoChar
    \/ activeCharacterId \notin CharacterIds
    \/ Len(History(activeCharacterId)) > 0

\* The greeting timer t fires: latestHandleProactiveGreeting.current().
GreetingTimerFires(t) ==
    /\ t \in Pending("greeting")
    /\ LET ts == timers \ {t}
           ref == IF proactiveGreetingTimerRef = t.h THEN StaleRef
                  ELSE proactiveGreetingTimerRef
       IN  IF GreetingBlocked
           THEN /\ timers' = ts
                /\ proactiveGreetingTimerRef' = ref
                /\ ev' = Event("greetingTimer", activeCharacterId, "none")
                /\ UNCHANGED <<isLoading, inflight>>
           ELSE /\ Room(1)
                /\ timers' = ClearTimeout(ts, ref)
                /\ proactiveGreetingTimerRef' = NullRef
                /\ isLoading' = TRUE
                /\ inflight' = inflight \cup
                       {Call("greeting", activeCharacterId, <<>>, History(activeCharacterId))}
                /\ ev' = Event("greetingTimer", activeCharacterId, "greeting")
    /\ UNCHANGED <<characters, activeCharacterId, chats, chatMode,
                   inactivityTimerRef, followUpSentRef>>

\* The early returns of handleSendFollowUp without the follow-up-sent guard.
FollowUpBlockedNoGuard ==
    \/ isLoading
    \/ activeCharacterId = NoChar
    \/ activeCharacterId \notin CharacterIds

\* The early returns of handleSendFollowUp.
FollowUpBlocked ==
    \/ isLoading
    \/ activeCharacterId = NoChar
    \/ followUpSentRef
    \/ activeCharacterId \notin CharacterIds

\* The inactivity timer t fires: latestHandleSendFollowUp.current().
InactivityTimerFires(t) ==
    /\ t \in Pending("inactivity")
    /\ LET ts == timers \ {t}
           ref == IF inactivityTimerRef = t.h THEN StaleRef ELSE inactivityTimerRef
       IN  IF FollowUpBlocked
           THEN /\ timers' = ts
                /\ inactivityTimerRef' = ref
                /\ ev' = Event("inactivityTimer", activeCharacterId, "none")
                /\ UNCHANGED <<followUpSentRef, isLoading, inflight>>
           ELSE /\ Room(1)
                /\ timers' = ClearTimeout(ts, ref)
                /\ inactivityTimerRef' = NullRef
                /\ followUpSentRef' = TRUE
                /\ isLoading' = TRUE
                /\ inflight' = inflight \cup
                       {Call("followup", activeCharacterId,
                             History(activeCharacterId), History(activeCharacterId))}
                /\ ev' = Event("inactivityTimer", activeCharacterId, "followup")
    /\ UNCHANGED <<characters, activeCharacterId, chats, chatMode,
                   proactiveGreetingTimerRef>>

\* ArmsInactivity without the test of the mode.
ArmsInactivityAnyMode(c) == c.kind \in {"send", "greeting"}

\* Whether the continuation of call c arms the inactivity timer after its
\* reply: the greeting and the send flow do, in the mode the call captured.
ArmsInactivity(c) == c.kind \in {"send", "greeting"} /\ c.mode = "normal"

\* The timers and the inactivity ref after the continuation of c:
\* inactivityTimerRef.current = setTimeout(...), over whatever the ref held.
ArmInactivity(c, ts, ref) ==
    LET h == NewHandle(ts)
    IN  IF ArmsInactivity(c)
        THEN [timers |-> ts \cup {[h |-> h, kind |-> "inactivity", owner |-> c.id]},
              ref |-> h]
        ELSE [timers |-> ts, ref |-> ref]

\* The reply appended to the history sent to the model instead of the
\* history the flow holds.
ReplyHistoryStale(c, aiMessage) == Append(c.history, aiMessage)

\* The reply stored together with the prompt that asked for it.
ReplyHistoryWithPrompt(c, aiMessage) ==
    Append(Append(c.base, UserMessage(<<"hello">>)), aiMessage)

\* [...updatedHistory, aiMessage] (send), [...currentHistory, aiMessage]
\* (greeting, follow-up): the array the continuation of c stores.
ReplyHistory(c, aiMessage) == Append(c.base, aiMessage)

\* chat.sendMessage resolves with `body` as response.text.
ModelReplies(c, body) ==
    /\ c \in inflight
    /\ LET aiMessage == DecodeReply(c.kind, body)
           chats1 == SetChat(chats, c.id, ReplyHistory(c, aiMessage))
           a == ArmInactivity(c, timers, inactivityTimerRef)
           e == RunEffects(FALSE, activeCharacterId, chats1, a.timers, a.ref,
                           proactiveGreetingTimerRef)
       IN  /\ chats' = chats1
           /\ timers' = e.timers
           /\ inactivityTimerRef' = e.inactRef
           /\ proactiveGreetingTimerRef' = e.greetRef
    /\ isLoading' = FALSE
    /\ inflight' = inflight \ {c}
    /\ ev' = [op |-> "reply", id |-> c.id, call |-> c.kind, body |-> body]
    /\ UNCHANGED <<characters, activeCharacterId, chatMode, followUpSentRef>>

\* The conversation map after the outer catch of the flow of call c.
ChatsAfterFailure(c) ==
    IF c.kind = "send" THEN SetChat(chats, c.id, Append(c.base, ErrorMessage))
    ELSE chats

\* The call throws and no finally block clears the loading flag.
ModelCallFailsWithoutFinally(c) ==
    /\ c \in inflight
    /\ LET chats1 == ChatsAfterFailure(c)
           e == IF c.kind = "send"
                THEN RunEffects(FALSE, activeCharacterId, chats1, timers,
                                inactivityTimerRef, proactiveGreetingTimerRef)
                ELSE [timers |-> timers, inactRef |-> inactivityTimerRef,
                      greetRef |-> proactiveGreetingTimerRef]
       IN  /\ chats' = chats1
           /\ timers' = e.timers
           /\ inactivityTimerRef' = e.inactRef
           /\ proactiveGreetingTimerRef' = e.greetRef
    /\ isLoading' = isLoading
    /\ inflight' = inflight \ {c}
    /\ ev' = Event("fail", c.id, c.kind)
    /\ UNCHANGED <<characters, activeCharacterId, chatMode, followUpSentRef>>

\* chat.sendMessage (or ai.chats.create) throws.
ModelCallFails(c) ==
    /\ c \in inflight
    /\ LET chats1 == ChatsAfterFailure(c)
           e == IF c.kind = "send"
                THEN RunEffects(FALSE, activeCharacterId, chats1, timers,
                                inactivityTimerRef, proactiveGreetingTimerRef)
                ELSE [timers |-> timers, inactRef |-> inactivityTimerRef,
                      greetRef |-> proactiveGreetingTimerRef]
       IN  /\ chats' = chats1
           /\ timers' = e.timers
           /\ inactivityTimerRef' = e.inactRef
           /\ proactiveGreetingTimerRef' = e.greetRef
    /\ isLoading' = FALSE
    /\ inflight' = inflight \ {c}
    /\ ev' = Event("fail", c.id, c.kind)
    /\ UNCHANGED <<characters, activeCharacterId, chatMode, followUpSentRef>>

\* The steps of the scheduler leave the modals and the speech state alone.
SchedulerOnly ==
    /\ UNCHANGED <<modalVars, analysisVars, speechVars, notice>>
    /\ Persist
    /\ UNCHANGED quizVars

Next ==
    \/ \E id \in Ids : SelectCharacter(id) /\ SchedulerOnly
    \/ \E id \in Ids : handleDeleteCharacter(id) /\ SchedulerOnly
    \/ \E m \in Modes : onSetChatMode(m) /\ SchedulerOnly
    \/ \E text \in UserTexts \cup {<<"yes">>, <<"no">>} :
            handleSendMessage(text) /\ SchedulerOnly
    \/ \E t \in timers : GreetingTimerFires(t) /\ SchedulerOnly
    \/ \E t \in timers : InactivityTimerFires(t) /\ SchedulerOnly
    \/ \E c \in inflight, body \in Bodies : ModelReplies(c, body) /\ SchedulerOnly
    \/ \E c \in inflight : ModelCallFails(c) /\ SchedulerOnly

Spec == Init /\ [][Next]_vars

\* The event loop runs every timer that is due and every call of the model
\* settles, with a reply or with an error; the user is free to do nothing.
Fairness ==
    /\ WF_vars(\E t \in timers : GreetingTimerFires(t) /\ SchedulerOnly)
    /\ WF_vars(\E t \in timers : InactivityTimerFires(t) /\ SchedulerOnly)
    /\ WF_vars(\E c \in inflight :
                  \/ \E body \in Bodies : ModelReplies(c, body) /\ SchedulerOnly
                  \/ ModelCallFails(c) /\ SchedulerOnly)

SpecLive == Init /\ [][Next]_vars /\ Fairness

\* The greeting of a persona, as decoded from a reply with a dialogue.
HiMessage == DecodeReply("greeting", <<"{", "dialogue", "s:hi", "}">>)

----------------------------------------------------------------------------
(* SpecPersona: the persona modal and handleSaveCharacter, from the initial *)
(* state. Texts are sequences of characters, " " being white space.        *)

FieldTexts == { <<>>, <<" ">>, <<"x">>, <<" ", "x">> }

RANDOM_PURPOSES ==
    << <<"invention">>, <<"artifact">>, <<"society">>, <<"advice">>,
       <<"party">>, <<"riddle">>, <<"sugar">>, <<"chess">> >>

\* crypto.randomUUID() draws from these and the ids no longer in use.
NewIds == {"c"}

RECURSIVE TrimStart(_)
TrimStart(s) == IF s # <<>> /\ Head(s) = " " THEN TrimStart(Tail(s)) ELSE s

RECURSIVE TrimEnd(_)
TrimEnd(s) ==
    IF s # <<>> /\ s[Len(s)] = " " THEN TrimEnd(SubSeq(s, 1, Len(s) - 1)) ELSE s

\* String.prototype.trim
Trim(s) == TrimEnd(TrimStart(s))

\* !text.trim()
Blank(s) == Trim(s) = <<>>

NameRequired == "Name and Personality are required."

\* The effect of CharacterModal on [character]: the form shows the persona
\* being edited, or the defaults.
FormOf(character) ==
    IF character = NoPersona THEN EmptyForm
    ELSE [name |-> character.name, personality |-> character.personality,
          purpose |-> character.purpose, gender |-> character.gender,
          language |-> character.language]

\* The personas of the list that were saved since the load.
Saved == { i \in DOMAIN characters :
             \A j \in DOMAIN StoredCharacters : characters[i] # StoredCharacters[j] }

PersonaFrame ==
    /\ UNCHANGED <<activeCharacterId, isLoading, chatMode, followUpSentRef, inflight>>
    /\ UNCHANGED <<analysisVars, speechVars>>
    /\ Persist
    /\ UNCHANGED quizVars

ModalFrame ==
    /\ UNCHANGED <<characters, chats, timers, inactivityTimerRef,
                   proactiveGreetingTimerRef>>
    /\ PersonaFrame

\* Sidebar: New Character (null) or the edit button of a persona.
handleOpenModal(character) ==
    /\ ~isModalOpen
    /\ Cardinality(Saved) < MaxSaved
    /\ character = NoPersona \/ \E i \in DOMAIN characters : character = characters[i]
    /\ editingCharacter' = character
    /\ isModalOpen' = TRUE
    /\ form' = FormOf(character)
    /\ notice' = NoNotice
    /\ ev' = Event("openModal", character.id, "none")
    /\ ModalFrame

\* The Cancel button: onClose = setIsModalOpen(false); the modal unmounts.
onClose ==
    /\ isModalOpen
    /\ isModalOpen' = FALSE
    /\ form' = EmptyForm
    /\ notice' = NoNotice
    /\ ev' = Event("closeModal", editingCharacter.id, "none")
    /\ UNCHANGED editingCharacter
    /\ ModalFrame

\* onChange of the name, personality and purpose inputs.
setField(field, text) ==
    /\ isModalOpen
    /\ form[field] # text
    /\ form' = [form EXCEPT ![field] = text]
    /\ notice' = NoNotice
    /\ ev' = Event("input", editingCharacter.id, "none")
    /\ UNCHANGED editingCharacter
    /\ UNCHANGED isModalOpen
    /\ ModalFrame

\* The validation of the form with the personality not looked at.
SubmissionRejectedNameOnly(f) == Blank(f.name)

\* if (!name.trim() || !personality.trim())
SubmissionRejected(f) == Blank(f.name) \/ Blank(f.personality)

\* The fallback purpose for the empty string only.
PurposeToSaveUntrimmed(purpose, i) ==
    IF purpose = <<>> THEN RANDOM_PURPOSES[i] ELSE purpose

\* if (!characterToSave.purpose?.trim()) purpose = RANDOM_PURPOSES[i]
PurposeToSave(purpose, i) ==
    IF Blank(purpose) THEN RANDOM_PURPOSES[i] ELSE purpose

\* prev.map(c => c.id === saved.id ? saved : c), or [...prev, saved].
SaveInto(list, saved) ==
    IF \E k \in DOMAIN list : list[k].id = saved.id
    THEN [k \in DOMAIN list |-> IF list[k].id = saved.id THEN saved ELSE list[k]]
    ELSE Append(list, saved)

\* handleSaveCharacter(character), i being the index Math.random() picks.
handleSaveCharacter(character, i) ==
    LET characterToSave ==
            [character EXCEPT !.purpose = PurposeToSave(character.purpose, i)]
        chats1 == IF characterToSave.id \in DOMAIN chats THEN chats
                  ELSE SetChat(chats, characterToSave.id, <<>>)
        e == RunEffects(FALSE, activeCharacterId, chats1, timers,
                        inactivityTimerRef, proactiveGreetingTimerRef)
    IN  /\ characters' = SaveInto(characters, characterToSave)
        /\ chats' = chats1
        /\ timers' = IF chats1 = chats THEN timers ELSE e.timers
        /\ inactivityTimerRef' = IF chats1 = chats THEN inactivityTimerRef ELSE e.inactRef
        /\ proactiveGreetingTimerRef' =
               IF chats1 = chats THEN proactiveGreetingTimerRef ELSE e.greetRef
        /\ editingCharacter' = NoPersona
        /\ isModalOpen' = FALSE
        /\ form' = EmptyForm
        /\ notice' = NoNotice
        /\ ev' = Event("save", characterToSave.id, "none")
        /\ PersonaFrame

\* CharacterModal.handleSubmit
handleSubmit ==
    /\ isModalOpen
    /\ IF SubmissionRejected(form)
       THEN /\ notice' = NameRequired
            /\ ev' = Event("rejected", editingCharacter.id, "none")
            /\ UNCHANGED <<editingCharacter, isModalOpen, form>>
            /\ ModalFrame
       ELSE \E id \in Ids \cup NewIds, i \in DOMAIN RANDOM_PURPOSES :
              /\ IF editingCharacter # NoPersona THEN id = editingCharacter.id
                 ELSE id \notin CharacterIds \cup DOMAIN chats
              /\ handleSaveCharacter([id |-> id, name |-> form.name,
                                      personality |-> form.personality,
                                      purpose |-> form.purpose,
                                      gender |-> form.gender,
                                      language |-> form.language], i)

PersonaNext ==
    \/ \E character \in {NoPersona} \cup {characters[i] : i \in DOMAIN characters} :
          handleOpenModal(character)
    \/ onClose
    \/ \E field \in {"name", "personality", "purpose"}, text \in FieldTexts :
          setField(field, text)
    \/ handleSubmit

SpecPersona == Init /\ [][PersonaNext]_allVars

----------------------------------------------------------------------------
(* SpecAnalysis: handleAnalyzeUser and the analysis modal, from the states  *)
(* of Spec in which persona "a" is active and each message the user sent    *)
(* was answered by the error message of a failed call (no timer pending).   *)

RECURSIVE FailedRounds(_)
FailedRounds(k) ==
    IF k = 0 THEN <<>>
    ELSE FailedRounds(k - 1) \o <<UserMessage(<<"hello">>), ErrorMessage>>

AnalysisInit ==
    /\ characters = StoredCharacters
    /\ activeCharacterId = "a"
    /\ \E k \in 1 .. MaxRounds :
          chats = [id \in Ids |-> IF id = "a" THEN FailedRounds(k) ELSE <<>>]
    /\ isLoading = FALSE
    /\ chatMode = "normal"
    /\ inactivityTimerRef = NullRef
    /\ proactiveGreetingTimerRef = NullRef
    /\ followUpSentRef = FALSE
    /\ timers = {}
    /\ inflight = {}
    /\ ev = Event("fail", "a", "send")
    /\ ModalClosed
    /\ AnalysisIdle
    /\ SpeechIdle
    /\ notice = NoNotice
    /\ Persisted
    /\ QuizIdle

MoreConversation == "Please have a bit more conversation before analyzing the user."
AnalysisError == "An error occurred while analyzing the user. Please try again."

UserMessages(history) == SelectSeq(history, LAMBDA m : m.role = "user")

\* The test of the history with one message of the user being enough.
EnoughUserMessagesOne(history) == ~(Len(UserMessages(history)) < 1)

\* !(userMessages.length < 2)
EnoughUserMessages(history) == ~(Len(UserMessages(history)) < 2)

AnalysisFrame ==
    /\ UNCHANGED vars_but_ev
    /\ UNCHANGED <<modalVars, speechVars>>
    /\ Persist
    /\ UNCHANGED quizVars

\* handleAnalyzeUser, the onAnalyzeUser prop of ChatWindow. Its button is
\* disabled while an analysis runs and is covered by the analysis modal;
\* the handler itself tests the number of messages of the user.
handleAnalyzeUser ==
    /\ ChatWindowShown
    /\ ~isAnalyzing
    /\ ~isAnalysisModalOpen
    /\ LET currentHistory == IF activeCharacterId \in DOMAIN chats
                             THEN chats[activeCharacterId] ELSE <<>>
       IN  IF ~EnoughUserMessages(currentHistory)
           THEN /\ notice' = MoreConversation
                /\ UNCHANGED analysisVars
           ELSE /\ isAnalyzing' = TRUE
                /\ isAnalysisModalOpen' = TRUE
                /\ analysisResult' = JsNull
                /\ analysisCall' = [id |-> activeCharacterId, history |-> currentHistory]
                /\ notice' = NoNotice
    /\ ev' = Event("analyze", activeCharacterId, "analysis")
    /\ AnalysisFrame

\* The catch block leaving the modal open and showing no notice.
AnalysisCaughtSilently ==
    [result |-> analysisResult, open |-> isAnalysisModalOpen, notice |-> NoNotice]

\* catch: alert(...), setIsAnalysisModalOpen(false); the report is not set.
AnalysisCaught ==
    [result |-> analysisResult, open |-> FALSE, notice |-> AnalysisError]

\* try { setAnalysisResult(JSON.parse(response.text)) } catch { ... }
AnalysisOutcome(body) ==
    LET p == JSONParse(body)
    IN  IF p.ok
        THEN [result |-> p.val, open |-> isAnalysisModalOpen, notice |-> NoNotice]
        ELSE AnalysisCaught

Settle(outcome) ==
    /\ analysisResult' = outcome.result
    /\ isAnalysisModalOpen' = outcome.open
    /\ notice' = outcome.notice
    /\ isAnalyzing' = FALSE
    /\ analysisCall' = NoCall
    /\ AnalysisFrame

\* generateContent resolves with `body` as response.text.
AnalysisReplies(body) ==
    /\ analysisCall # NoCall
    /\ ev' = [op |-> "analysisReply", id |-> analysisCall.id, call |-> "analysis",
              body |-> body]
    /\ Settle(AnalysisOutcome(body))

\* generateContent throws.
AnalysisCallFails ==
    /\ analysisCall # NoCall
    /\ ev' = Event("analysisFails", analysisCall.id, "analysis")
    /\ Settle(AnalysisCaught)

\* The close buttons of AnalysisModal: setIsAnalysisModalOpen(false).
onCloseAnalysis ==
    /\ isAnalysisModalOpen
    /\ isAnalysisModalOpen' = FALSE
    /\ notice' = NoNotice
    /\ ev' = Event("closeAnalysis", activeCharacterId, "analysis")
    /\ UNCHANGED <<analysisResult, isAnalyzing, analysisCall>>
    /\ AnalysisFrame

AnalysisNext ==
    \/ handleAnalyzeUser
    \/ \E body \in GatewayBodies : AnalysisReplies(body)
    \/ AnalysisCallFails
    \/ onCloseAnalysis

SpecAnalysis == AnalysisInit /\ [][AnalysisNext]_allVars

----------------------------------------------------------------------------
(* SpecVoice: text-to-speech in ChatWindow, from the states of Spec in which *)
(* the active persona has greeted in game mode (no timer pending). Names    *)
(* are sequences of words, language tags sequences of subtags.             *)

Genders == {"male", "female", "neutral"}
Languages == { <<"en", "US">>, <<"fr", "FR">> }

VoiceNames ==
    { <<"Microsoft", "David">>, <<"Microsoft", "Zira">>, <<"Google", "Female">> }

\* The voices a browser may offer.
VoicePool ==
    { [name |-> n, lang |-> l, localService |-> f, default |-> ~f] :
          n \in VoiceNames, l \in Languages, f \in BOOLEAN }

\* String.prototype.toLowerCase on a word of the names.
LowerWord(w) ==
    CASE w = "Microsoft" -> "microsoft"
      [] w = "David"     -> "david"
      [] w = "Zira"      -> "zira"
      [] w = "Google"    -> "google"
      [] w = "Female"    -> "female"
      [] OTHER           -> w

toLowerCase(name) == [k \in DOMAIN name |-> LowerWord(name[k])]

\* name.includes(kw): kw is a substring of a word of the name; among the
\* words of the names and the keywords, only "female" has another one,
\* "male", as a proper substring.
includes(name, kw) ==
    \E k \in DOMAIN name : name[k] = kw \/ (name[k] = "female" /\ kw = "male")

maleKeywords ==
    {"male", "david", "mark", "james", "tom", "alex", "daniel", "fred", "rishi"}
femaleKeywords ==
    {"female", "zira", "susan", "linda", "hazel", "karen", "moira", "samantha", "tessa"}

\* v.lang.startsWith(prefix), prefix being a primary subtag.
startsWith(lang, prefix) == lang # <<>> /\ Head(lang) = prefix

\* The score the comparator of the sort gives a voice.
Score(character, v) ==
    LET aName == toLowerCase(v.name)
        targetKeywords == IF character.gender = "male" THEN maleKeywords ELSE femaleKeywords
        oppositeKeywords == IF character.gender = "male" THEN femaleKeywords ELSE maleKeywords
        hit(kws) == \E kw \in kws : includes(aName, kw)
    IN    (IF character.gender # "neutral" /\ hit(targetKeywords) THEN 100 ELSE 0)
        - (IF character.gender # "neutral" /\ hit(oppositeKeywords) THEN 50 ELSE 0)
        + (IF v.localService THEN 10 ELSE 0)
        + (IF includes(aName, "google") THEN 5 ELSE 0)
        + (IF includes(aName, "microsoft") THEN 3 ELSE 0)
        - (IF v.default THEN 1 ELSE 0)

\* [...langVoices].sort((a, b) => scoreB - scoreA): stable, best score first.
RECURSIVE SortByScore(_, _)
SortByScore(character, vs) ==
    IF vs = <<>> THEN <<>>
    ELSE LET n == Len(vs)
             s == SortByScore(character, SubSeq(vs, 1, n - 1))
             p == Cardinality({ k \in DOMAIN s :
                                  Score(character, s[k]) >= Score(character, vs[n]) })
         IN  SubSeq(s, 1, p) \o <<vs[n]>> \o SubSeq(s, p + 1, Len(s))

\* The voices in the language of the persona, or the English ones if none.
LangVoices(character, vs) ==
    LET own == SelectSeq(vs, LAMBDA v : startsWith(v.lang, Head(character.language)))
    IN  IF own # <<>> THEN own
        ELSE SelectSeq(vs, LAMBDA v : startsWith(v.lang, "en"))

\* id.split('').reduce((acc, char) => acc + char.charCodeAt(0), 0)
charCodeSum(id) ==
    CASE id = "a" -> 97
      [] id = "b" -> 98
      [] id = "c" -> 99

\* getCharacterVoice with the hash choosing among the voices of top score.
getCharacterVoiceAmongBest(character, vs) ==
    LET langVoices == LangVoices(character, vs)
        sortedVoices == SortByScore(character, langVoices)
        best == SelectSeq(sortedVoices,
                          LAMBDA v : Score(character, v) = Score(character, sortedVoices[1]))
    IN  IF vs = <<>> THEN NoVoice
        ELSE IF langVoices = <<>> THEN vs[1]
        ELSE best[(charCodeSum(character.id) % Len(best)) + 1]

getCharacterVoice(character, vs) ==
    LET langVoices == LangVoices(character, vs)
        sortedVoices == SortByScore(character, langVoices)
    IN  IF vs = <<>> THEN NoVoice
        ELSE IF langVoices = <<>> THEN vs[1]
        ELSE sortedVoices[(charCodeSum(character.id) % Len(sortedVoices)) + 1]

\* The persona ChatWindow is rendered for.
ActiveCharacter ==
    CHOOSE c \in {characters[k] : k \in DOMAIN characters} : c.id = activeCharacterId

VoiceInit ==
    /\ \E g \in Genders, l \in Languages :
          characters = [k \in DOMAIN StoredCharacters |->
                           [StoredCharacters[k] EXCEPT !.gender = g, !.language = l]]
    /\ \E id \in Ids :
          /\ activeCharacterId = id
          /\ \E msgs \in {<<HiMessage>>, <<HiMessage, UserMessage(<<"hello">>), HiMessage>>} :
                /\ chats = [x \in Ids |-> IF x = id THEN msgs ELSE <<>>]
                /\ ev = [op |-> "reply", id |-> id,
                         call |-> IF Len(msgs) = 1 THEN "greeting" ELSE "send",
                         body |-> <<"{", "dialogue", "s:hi", "}">>]
    /\ isLoading = FALSE
    /\ chatMode = "game"
    /\ inactivityTimerRef = NullRef
    /\ proactiveGreetingTimerRef = NullRef
    /\ followUpSentRef = FALSE
    /\ timers = {}
    /\ inflight = {}
    /\ ModalClosed
    /\ AnalysisIdle
    /\ SpeechIdle
    /\ notice = NoNotice
    /\ Persisted
    /\ QuizIdle

VoicesUnavailable ==
    "Text-to-speech voices not available yet. Please wait a moment and try again."

SpeechFrame ==
    /\ UNCHANGED vars_but_ev
    /\ UNCHANGED <<modalVars, analysisVars>>
    /\ Persist
    /\ UNCHANGED quizVars

\* loadVoices at mount and on voiceschanged: the browser offers one more voice.
loadVoices(v) ==
    /\ ChatWindowShown
    /\ Len(voices) < MaxVoices
    /\ voices' = Append(voices, v)
    /\ notice' = NoNotice
    /\ ev' = Event("voices", activeCharacterId, "none")
    /\ UNCHANGED <<utteranceVoice, speakingMessageId, speechSynthesis>>
    /\ SpeechFrame

\* speechSynthesis.cancel(): speaking stops at once; the end or error event
\* of the utterance that was being spoken is delivered later, as a task.
cancel(s) ==
    [speaking |-> NoMessage,
     cancelled |-> IF s.speaking = NoMessage THEN s.cancelled
                   ELSE s.cancelled \cup {s.speaking}]

\* speechSynthesis.speak(utterance) for the message at position k.
speak(s, k) == [s EXCEPT !.speaking = k]

\* The speaker button of the message at position k (shown on the messages
\* of the model only).
handleToggleSpeech(k) ==
    /\ ChatWindowShown
    /\ k \in DOMAIN chats[activeCharacterId]
    /\ chats[activeCharacterId][k].role = "model"
    /\ IF voices = <<>>
       THEN /\ notice' = VoicesUnavailable
            /\ UNCHANGED <<utteranceVoice, speakingMessageId, speechSynthesis>>
       ELSE IF speakingMessageId = k
       THEN /\ speechSynthesis' = cancel(speechSynthesis)
            /\ speakingMessageId' = NoMessage
            /\ notice' = NoNotice
            /\ UNCHANGED utteranceVoice
       ELSE /\ utteranceVoice' = getCharacterVoice(ActiveCharacter, voices)
            /\ speakingMessageId' = k
            /\ speechSynthesis' = speak(cancel(speechSynthesis), k)
            /\ notice' = NoNotice
    /\ ev' = Event(IF voices # <<>> /\ speakingMessageId # k THEN "speak" ELSE "toggleSpeech",
                   activeCharacterId, "none")
    /\ UNCHANGED voices
    /\ SpeechFrame

\* utterance.onend / utterance.onerror of the utterance being spoken: it
\* ends by itself.
onend ==
    /\ speechSynthesis.speaking # NoMessage
    /\ speechSynthesis' = [speechSynthesis EXCEPT !.speaking = NoMessage]
    /\ speakingMessageId' = NoMessage
    /\ notice' = NoNotice
    /\ ev' = Event("speechEnd", activeCharacterId, "none")
    /\ UNCHANGED <<voices, utteranceVoice>>
    /\ SpeechFrame

\* utterance.onend / utterance.onerror of a cancelled utterance: the event
\* of the utterance of message m is delivered after cancel() returned.
onerror(m) ==
    /\ m \in speechSynthesis.cancelled
    /\ speechSynthesis' = [speechSynthesis EXCEPT !.cancelled = @ \ {m}]
    /\ speakingMessageId' = NoMessage
    /\ notice' = NoNotice
    /\ ev' = Event("speechError", activeCharacterId, "none")
    /\ UNCHANGED <<voices, utteranceVoice>>
    /\ SpeechFrame

\* The effect on [character]: stop speaking when the character changes.
StopSpeaking ==
    /\ speechSynthesis' = cancel(speechSynthesis)
    /\ speakingMessageId' = NoMessage
    /\ UNCHANGED <<voices, utteranceVoice, notice>>
    /\ UNCHANGED <<modalVars, analysisVars>>
    /\ Persist
    /\ UNCHANGED quizVars

VoiceNext ==
    \/ \E v \in VoicePool : loadVoices(v)
    \/ \E k \in 1 .. MaxMsgs : handleToggleSpeech(k)
    \/ onend
    \/ \E m \in 1 .. MaxMsgs : onerror(m)
    \/ \E id \in Ids : SelectCharacter(id) /\ StopSpeaking

SpecVoice == VoiceInit /\ [][VoiceNext]_allVars

----------------------------------------------------------------------------
(* SpecGateway: the decoding of a reply, from the states of Spec in which   *)
(* persona "a" has a call of each kind in flight.                          *)

\* select a, [Game], the greeting timer fires.
GreetingInFlight(m) ==
    /\ chats = [id \in Ids |-> <<>>]
    /\ followUpSentRef = FALSE
    /\ inflight = {Call("greeting", "a", <<>>, <<>>)}
    /\ ev = Event("greetingTimer", "a", "greeting")

\* select a, send "hello".
SendInFlight(m) ==
    /\ m = "normal"
    /\ chats = [id \in Ids |-> IF id = "a" THEN <<UserMessage(<<"hello">>)>> ELSE <<>>]
    /\ followUpSentRef = FALSE
    /\ inflight = {Call("send", "a", <<>>, <<UserMessage(<<"hello">>)>>)}
    /\ ev = Event("send", "a", "send")

\* select a, the greeting timer fires, the reply arrives, [Game], the
\* inactivity timer fires.
FollowUpInFlight(m) ==
    /\ chats = [id \in Ids |-> IF id = "a" THEN <<HiMessage>> ELSE <<>>]
    /\ followUpSentRef = TRUE
    /\ inflight = {Call("followup", "a", <<HiMessage>>, <<HiMessage>>)}
    /\ ev = Event("inactivityTimer", "a", "followup")

CallInFlight ==
    /\ characters = StoredCharacters
    /\ activeCharacterId = "a"
    /\ isLoading = TRUE
    /\ inactivityTimerRef = NullRef
    /\ proactiveGreetingTimerRef = NullRef
    /\ timers = {}
    /\ \E m \in Modes :
          /\ chatMode = m
          /\ GreetingInFlight(m) \/ SendInFlight(m) \/ FollowUpInFlight(m)

GatewayInit ==
    /\ CallInFlight
    /\ ModalClosed
    /\ AnalysisIdle
    /\ SpeechIdle
    /\ notice = NoNotice
    /\ Persisted
    /\ QuizIdle

GatewayNext ==
    \E c \in inflight, body \in GatewayBodies : ModelReplies(c, body) /\ SchedulerOnly

SpecGateway == GatewayInit /\ [][GatewayNext]_vars

----------------------------------------------------------------------------
(* Claims *)

IsPrefix(s, t) == Len(s) <= Len(t) /\ \A i \in 1 .. Len(s) : s[i] = t[i]

\* A call of the given kind is issued by the step.
Issued(kind) == \E c \in inflight' \ inflight : c.kind = kind

RawMessage(text) ==
    [role |-> "model", text |-> text, thought |-> Undefined,
     action |-> Undefined, userResponseOptions |-> Undefined]

\* C1: in every reachable state at most one greeting timer and at most one
\* inactivity timer is pending.
C1_AtMostOneTimerOfEachKind ==
    /\ Cardinality(Pending("greeting")) <= 1
    /\ Cardinality(Pending("inactivity")) <= 1

\* C2: no pending timer was armed on behalf of a persona other than the
\* active one (after the active persona changes, the timers of the
\* previously active persona are gone, also when its reply arrives late).
C2_NoTimerOfPreviousPersona ==
    \A t \in timers : t.owner = activeCharacterId

\* C3: in the state in which handleSendMessage has issued its model call, no
\* greeting timer and no inactivity timer is pending.
C3_NoTimerPendingAtSend ==
    ev.op = "send" => timers = {}

\* C4: a follow-up call is issued only while the follow-up-sent guard is
\* false, issuing it sets the guard, and the guard stays set until
\* handleSendMessage issues a user send: at most one follow-up between two
\* consecutive user messages.
C4_OneFollowUpPerIdlePeriod ==
    [][ /\ Issued("followup") => (~followUpSentRef /\ followUpSentRef')
        /\ (followUpSentRef /\ ~Issued("send")) => followUpSentRef' ]_vars

\* An inactivity timer has fired after a follow-up was sent, with nothing
\* else in its way (no call in flight, an existing active persona), and
\* issued no call.
C4_Witness ==
    /\ ev.op = "inactivityTimer"
    /\ ev.call = "none"
    /\ followUpSentRef
    /\ ~isLoading
    /\ ChatWindowShown

\* C5: in the state reached by selecting a persona, exactly one greeting
\* timer is pending if its conversation is empty or absent, and none if its
\* conversation is non-empty.
C5_SelectArmsGreetingIffEmpty ==
    ev.op = "select" =>
        Cardinality(Pending("greeting")) =
            (IF Len(History(activeCharacterId)) = 0 THEN 1 ELSE 0)

\* A persona with a non-empty conversation was selected while another
\* persona's greeting timer was pending; and a persona without a stored
\* conversation was selected.
C5_Witness ==
    /\ ev.op = "select"
    /\ Len(History(activeCharacterId)) > 0
    /\ \E id \in CharacterIds \ {activeCharacterId} : Len(History(id)) = 0

\* C6: at most one model call is in flight, and no step taken while
\* isLoading is true (a timer firing, a submit) issues a call.
C6_AtMostOneCallInFlight ==
    [][ /\ Cardinality(inflight') <= 1
        /\ isLoading => inflight' \subseteq inflight ]_vars

\* A greeting timer has fired while a call was in flight and issued nothing.
C6_Witness ==
    /\ ev.op = "greetingTimer"
    /\ ev.call = "none"
    /\ isLoading
    /\ Cardinality(inflight) = 1
    /\ ChatWindowShown
    /\ Len(History(activeCharacterId)) = 0

\* C7: every step leaves the conversation of every persona that exists
\* before and after it a prefix of what it becomes.
C7_AppendOnly ==
    [][ \A id \in CharacterIds \cap CharacterIds' :
            id \in DOMAIN chats => /\ id \in DOMAIN chats'
                                   /\ IsPrefix(chats[id], chats'[id]) ]_vars

\* The reply to a user send has been appended to the conversation of a
\* persona that is no longer the active one.
C7_Witness ==
    /\ ev.op = "reply"
    /\ ev.call = "send"
    /\ ev.id \in CharacterIds
    /\ ev.id # activeCharacterId
    /\ activeCharacterId # NoChar
    /\ Len(chats[ev.id]) >= 2

\* C8: every key of the conversation map is the id of an existing persona.
C8_ChatsOnlyOfExistingPersonas ==
    DOMAIN chats \subseteq CharacterIds

\* C9: a step in which a model call fails appends exactly one error Message
\* to the conversation of the call's persona and clears isLoading, whichever
\* flow issued the call.
C9_FailureAppendsErrorMessage ==
    [][ \A c \in inflight :
            ModelCallFails(c) =>
                /\ c.id \in DOMAIN chats'
                /\ chats'[c.id] = Append(c.base, ErrorMessage)
                /\ ~isLoading' ]_vars

\* C10 as claimed: a reply whose body is not JSON, the empty body included,
\* is appended as a model Message with the raw body as its text, and
\* isLoading is cleared.
C10_RawBodyVerbatim ==
    [][ \A c \in inflight, body \in Bodies :
            (ModelReplies(c, body) /\ ~JSONParse(body).ok) =>
                /\ chats'[c.id] = Append(c.base, RawMessage(Str(body)))
                /\ ~isLoading' ]_vars

\* C10 amended: a reply whose body is not JSON is appended as a model
\* Message whose text is the raw body when the body is non-empty, and the
\* fixed fallback string of the flow when the body is empty; no error
\* Message is appended and isLoading is cleared.
C10_RawBodyOrFallback ==
    [][ \A c \in inflight, body \in Bodies :
            (ModelReplies(c, body) /\ ~JSONParse(body).ok) =>
                /\ chats'[c.id] = Append(c.base,
                       RawMessage(IF body = <<>> THEN Fallback(c.kind) ELSE Str(body)))
                /\ chats'[c.id][Len(chats'[c.id])] # ErrorMessage
                /\ ~isLoading' ]_vars

\* A follow-up reply whose body is a truncated JSON object has been
\* appended with the body as its text.
C10_Witness ==
    /\ ev.op = "reply"
    /\ ev.call = "followup"
    /\ ~isLoading
    /\ ev.id \in DOMAIN chats
    /\ Len(chats[ev.id]) > 0
    /\ chats[ev.id][Len(chats[ev.id])] = RawMessage(Str(<<"{", "dialogue", "s:hi">>))

\* C11: a reply that parses as a JSON object is appended as a model Message
\* whose text is the reply's dialogue, or "..." when the dialogue is
\* missing or empty, and whose thought, action and suggested options are
\* the reply's, absent when the reply has none.
C11_ObjectReplyMapped ==
    (ev.op = "reply" /\ JSONParse(ev.body).ok /\ JSONParse(ev.body).val.t = "object") =>
        LET reply == JSONParse(ev.body).val.v
            m == chats[ev.id][Len(chats[ev.id])]
        IN  /\ m.role = "model"
            /\ m.text = (IF reply["dialogue"] \in {Undefined, JsNull, Str(<<>>)}
                         THEN Ellipsis ELSE reply["dialogue"])
            /\ m.thought = reply["thought"]
            /\ m.action = reply["action"]
            /\ m.userResponseOptions = reply["user_response_options"]

\* An object with a thought and no dialogue has been decoded: the Message
\* carries the placeholder, the thought, and neither action nor options.
C11_Witness ==
    /\ ev.op = "reply"
    /\ ev.body = <<"{", "thought", "s:hm", "}">>
    /\ chats[ev.id][Len(chats[ev.id])] =
           [role |-> "model", text |-> Ellipsis, thought |-> Str(<<"hm">>),
            action |-> Undefined, userResponseOptions |-> Undefined]

\* The inactivity timers a step arms.
ArmedInactivity == { t \in timers' \ timers : t.kind = "inactivity" }

\* C12: when the reply to a greeting or to a user message is appended, no
\* inactivity timer is armed if the call was made in game mode, and one is
\* armed, and held by the ref, if it was made in normal mode.
C12_InactivityArmedIffNormalMode ==
    [][(ev'.op = "reply" /\ ev'.call \in {"send", "greeting"}) =>
          \A c \in inflight \ inflight' :
              IF c.mode = "game"
              THEN ArmedInactivity = {}
              ELSE /\ ArmedInactivity # {}
                   /\ inactivityTimerRef' \in { t.h : t \in ArmedInactivity }]_vars

\* In game mode the reply to an option the user chose has been appended and
\* no inactivity timer is pending.
C12_Witness ==
    /\ ev.op = "reply"
    /\ ev.call = "send"
    /\ chatMode = "game"
    /\ HasOptions(chats[ev.id][1])
    /\ \A t \in timers : t.kind # "inactivity"

ListIds(list) == [k \in DOMAIN list |-> list[k].id]

\* The text has a character that is not white space.
NonBlank(s) == \E k \in DOMAIN s : s[k] # " "

\* The persona a save step stores.
SavedPersona == CHOOSE c \in {characters'[k] : k \in DOMAIN characters'} : c.id = ev'.id

\* C13: a persona saved with an empty or white-space purpose is stored with
\* one of the 8 fallback purposes, none of them empty; a persona saved with
\* any other purpose is stored with that purpose.
C13_BlankPurposeReplaced ==
    [][ev'.op = "save" =>
          /\ Len(RANDOM_PURPOSES) = 8
          /\ \A k \in DOMAIN RANDOM_PURPOSES : ~Blank(RANDOM_PURPOSES[k])
          /\ IF ~NonBlank(form.purpose)
             THEN \E k \in DOMAIN RANDOM_PURPOSES : SavedPersona.purpose = RANDOM_PURPOSES[k]
             ELSE SavedPersona.purpose = form.purpose]_allVars

\* A persona typed with a white-space purpose is in the list with a purpose
\* of the pool.
C13_Witness ==
    /\ ev.op = "save"
    /\ \E k \in DOMAIN characters :
          /\ characters[k].id = ev.id
          /\ characters[k].name = <<" ", "x">>
          /\ characters[k].purpose = RANDOM_PURPOSES[Len(RANDOM_PURPOSES)]

\* C14: a persona the form adds to the list or changes in it has a name and
\* a personality that are not blank; a submission with one of them blank
\* shows the notice and changes nothing else; saving the edit of a persona
\* of the list leaves the ids of the list and their order as they were.
C14_SavedPersonaValid ==
    [][/\ \A k \in DOMAIN characters' :
             (k \notin DOMAIN characters \/ characters'[k] # characters[k]) =>
                 NonBlank(characters'[k].name) /\ NonBlank(characters'[k].personality)
       /\ (ev'.op \in {"save", "rejected"}
               /\ (~NonBlank(form.name) \/ ~NonBlank(form.personality))) =>
             /\ notice' = NameRequired
             /\ UNCHANGED <<characters, chats, editingCharacter, isModalOpen, form>>
             /\ UNCHANGED <<activeCharacterId, timers, inflight>>
       /\ (ev'.op = "save" /\ editingCharacter.id \in CharacterIds) =>
             ListIds(characters') = ListIds(characters)]_allVars

\* The edit of the first persona of the list has been saved with a new name.
C14_Witness ==
    /\ ev.op = "save"
    /\ ev.id = StoredCharacters[1].id
    /\ ListIds(characters) = ListIds(StoredCharacters)
    /\ characters[1].name = <<" ", "x">>
    /\ ~isModalOpen

UserCount(history) == Cardinality({ k \in DOMAIN history : history[k].role = "user" })

\* C15: handleAnalyzeUser called while the active conversation has fewer
\* than two messages of the user starts no call, leaves isAnalyzing, the
\* analysis modal and the stored report as they were, and shows the notice.
C15_TooFewMessagesNoCall ==
    [][(ev'.op = "analyze" /\ UserCount(chats[activeCharacterId]) < 2) =>
          /\ analysisCall' = analysisCall
          /\ inflight' = inflight
          /\ isAnalyzing' = isAnalyzing
          /\ isAnalysisModalOpen' = isAnalysisModalOpen
          /\ analysisResult' = analysisResult
          /\ notice' = MoreConversation]_allVars

\* The handler has run on a conversation with one message of the user.
C15_Witness ==
    /\ ev.op = "analyze"
    /\ UserCount(chats[activeCharacterId]) = 1
    /\ notice = MoreConversation
    /\ analysisCall = NoCall

\* The step settles the analysis call with a failure: the call threw, or
\* its reply is not JSON.
AnalysisFailed ==
    /\ analysisCall # NoCall
    /\ analysisCall' = NoCall
    /\ \/ ev'.op = "analysisFails"
       \/ ev'.op = "analysisReply" /\ ~JSONParse(ev'.body).ok

\* C16: when the analysis call fails or its reply cannot be parsed, the
\* report is null before and after, the analysis modal is closed (so no
\* report, empty or not, is displayed), the error notice is shown and
\* isAnalyzing is false.
C16_AnalysisFailureIsExplicit ==
    [][AnalysisFailed =>
          /\ analysisResult = JsNull
          /\ analysisResult' = JsNull
          /\ isAnalysisModalOpen' = FALSE
          /\ notice' = AnalysisError
          /\ isAnalyzing' = FALSE]_allVars

\* A reply cut off before its closing brace has settled the analysis: the
\* notice is shown, the modal is closed and no report is stored.
C16_Witness ==
    /\ ev.op = "analysisReply"
    /\ ev.body = <<"{", "dialogue", "s:hi">>
    /\ notice = AnalysisError
    /\ ~isAnalysisModalOpen
    /\ ~isAnalyzing
    /\ analysisResult = JsNull

\* C17: the voice given to an utterance has the best score among the voices
\* of the persona's language (the English ones if there is none); for a
\* male persona and the voices Microsoft David and Microsoft Zira it is
\* David, whatever the id of the persona.
C17_VoiceHasTopScore ==
    (ev.op = "speak" /\ LangVoices(ActiveCharacter, voices) # <<>>) =>
        LET candidates == LangVoices(ActiveCharacter, voices)
        IN  /\ \E k \in DOMAIN candidates : utteranceVoice = candidates[k]
            /\ \A k \in DOMAIN candidates :
                  Score(ActiveCharacter, candidates[k]) <= Score(ActiveCharacter, utteranceVoice)
            /\ (/\ ActiveCharacter.gender = "male"
                /\ Len(candidates) = 2
                /\ candidates[1].name = <<"Microsoft", "David">>
                /\ candidates[2].name = <<"Microsoft", "Zira">>)
                   => utteranceVoice.name = <<"Microsoft", "David">>

\* The most recent model Message of a conversation that has one.
LastModelMessage(msgs) ==
    msgs[CHOOSE i \in DOMAIN msgs :
             /\ msgs[i].role = "model"
             /\ \A j \in DOMAIN msgs : msgs[j].role = "model" => j <= i]

\* C19: in game mode with no call in flight, when the most recent model
\* Message of the active conversation has no suggested options, the input
\* offers no option button, none of an earlier message either.
C19_NoOptionsOfEarlierMessage ==
    (/\ ChatWindowShown
     /\ chatMode = "game"
     /\ ~isLoading
     /\ inflight = {}
     /\ \E i \in DOMAIN History(activeCharacterId) :
            History(activeCharacterId)[i].role = "model"
     /\ ~HasOptions(LastModelMessage(History(activeCharacterId))))
        => Submittable = {}

\* C20: the response schema of a call made in game mode has the field
\* user_response_options and lists it as required; the schema of a call
\* made in normal mode has no such field; in both modes dialogue is
\* required, and thought and action are fields that are not required.
C20_GameSchemaRequiresOptions ==
    \A c \in inflight :
        LET schema == c.config
        IN  /\ "dialogue" \in schema.properties
            /\ "dialogue" \in schema.required
            /\ {"thought", "action"} \subseteq schema.properties \ schema.required
            /\ IF c.mode = "game"
               THEN /\ "user_response_options" \in schema.properties
                    /\ "user_response_options" \in schema.required
               ELSE "user_response_options" \notin schema.properties

\* The greeting of the active persona is neither pending nor in flight:
\* the state a failed greeting leaves.
GreetingDormant ==
    /\ ChatWindowShown
    /\ History(activeCharacterId) = <<>>
    /\ Pending("greeting") = {}
    /\ inflight = {}

\* C21: a failed call arms no inactivity timer; once the greeting of the
\* active persona has failed, no greeting timer is armed for it until the
\* user sends a message or selects a persona; a follow-up that was sent,
\* failed or not, is not sent again until the user sends a message.
C21_NoAutomaticRetry ==
    [][/\ ev'.op = "fail" => ArmedInactivity = {}
       /\ (GreetingDormant /\ Pending("greeting")' # {}) => ev'.op \in {"send", "select"}
       /\ (followUpSentRef /\ ~followUpSentRef') => ev'.op = "send"]_vars

\* The user has done something since persona "b" was selected.
UserActedSinceSelect ==
    \/ ev.op \in {"send", "delete", "mode"}
    \/ ev.op = "select" /\ ev.id # "b"

\* C22: when persona "b" is selected with an empty conversation, then, as
\* long as the user does nothing else, due timers fire and calls settle, a
\* greeting call is issued for it (or the conversations are full).
C22_GreetingEventuallyIssued ==
    (ev = Event("select", "b", "none") /\ History("b") = <<>>)
        ~> \/ ev = Event("greetingTimer", "b", "greeting")
           \/ UserActedSinceSelect
           \/ ~Room(1)

\* The active conversation holds the greeting only, no call is in flight
\* and the inactivity timer its reply armed is pending: the persona stayed
\* selected and the user idle since the greeting.
IdleSinceGreeting(t) ==
    /\ ChatWindowShown
    /\ Len(History(activeCharacterId)) = 1
    /\ History(activeCharacterId)[1].role = "model"
    /\ ~isLoading
    /\ inflight = {}
    /\ t \in Pending("inactivity")
    /\ t.owner = activeCharacterId
    /\ inactivityTimerRef = t.h

\* C23: when the inactivity timer armed by the greeting reply of the active
\* persona fires, the persona still selected and the user idle, a follow-up
\* call is issued for that persona, whatever was sent to other personas.
C23_FollowUpAfterGreeting ==
    [][\A t \in timers :
          (IdleSinceGreeting(t) /\ t \notin timers' /\ ev'.op = "inactivityTimer") =>
              ev' = Event("inactivityTimer", activeCharacterId, "followup")]_vars

\* C24: a greeting call is issued for the active persona, while its
\* conversation is empty, with an empty history; when its reply is appended
\* the conversation holds that one Message, so the Message a greeting
\* produces is the first of its conversation and no other follows it.
C24_GreetingOnlyIntoEmptyConversation ==
    /\ (ev.op = "greetingTimer" /\ ev.call = "greeting") =>
          /\ ev.id = activeCharacterId
          /\ History(ev.id) = <<>>
          /\ \E c \in inflight :
                c.kind = "greeting" /\ c.id = ev.id /\ c.history = <<>>
    /\ \A c \in inflight : c.kind = "greeting" => c.history = <<>>
    /\ (ev.op = "reply" /\ ev.call = "greeting") =>
          /\ Len(chats[ev.id]) = 1
          /\ chats[ev.id][1].role = "model"

\* The greeting of persona "b" has been appended while another persona,
\* with a conversation of its own, was there.
C24_Witness ==
    /\ ev.op = "reply"
    /\ ev.call = "greeting"
    /\ ev.id = "b"
    /\ chats["b"] = <<HiMessage>>
    /\ "a" \in DOMAIN chats
    /\ chats["a"] # <<>>

\* C25: isLoading is true exactly while a model call is in flight: every
\* step that issues a send, greeting or follow-up call sets it, the step
\* that completes the call (a reply of any shape, or a failure) clears it,
\* and it is never true with no call outstanding.
C25_LoadingIffCallInFlight ==
    /\ isLoading <=> inflight # {}
    /\ ev.op \in {"reply", "fail"} => ~isLoading /\ inflight = {}
    /\ (ev.op \in {"send", "greetingTimer", "inactivityTimer"} /\ ev.call # "none") =>
          isLoading /\ \E c \in inflight : c.kind = ev.call /\ c.id = ev.id

\* A call failed and the loading flag is cleared with nothing in flight.
C25_Witness ==
    /\ ev = Event("fail", "a", "followup")
    /\ ~isLoading
    /\ inflight = {}

\* C26: when an inactivity timer fires and issues a follow-up call, the call
\* is for the persona whose reply armed the timer, never for a persona that
\* was selected after the timer was armed.
C26_FollowUpTargetsArmingPersona ==
    [][\A t \in timers :
          (InactivityTimerFires(t) /\ ev'.call = "followup") =>
              \A c \in inflight' \ inflight : c.id = t.owner]_vars

\* C27: no follow-up call is issued while the mode is game, also when the
\* mode was toggled to game while an inactivity timer armed in normal mode
\* was pending.
C27_NoFollowUpInGameMode ==
    [][(ev'.op = "inactivityTimer" /\ ev'.call = "followup") => chatMode # "game"]_vars

\* C28: the speaking indicator names the message whose utterance is being
\* spoken, and is null when nothing is being spoken, also after speech for
\* another message was started and the end or error event of the cancelled
\* utterance is delivered late.
C28_IndicatorIsSpokenMessage ==
    speakingMessageId = speechSynthesis.speaking

----------------------------------------------------------------------------
(***************************************************************************)
(* SpecStorage: the page is loaded (or loaded again) with a store that     *)
(* holds, for each of the two items, nothing, a text JSON.parse rejects,   *)
(* or what an earlier session saved; then personas are selected and        *)
(* deleted and messages are sent and answered.                             *)
(***************************************************************************)

\* useState<Record<string, Message[]>>({})
NoChats == [id \in {} |-> <<>>]

StorageInit ==
    /\ \E ck \in {"null", "corrupt", "json"}, hk \in {"null", "corrupt", "json"} :
          localStorage =
              [characters |-> IF ck = "json" THEN JSONStringify(StoredCharacters)
                              ELSE [kind |-> ck, value |-> <<>>],
               chats |-> IF hk = "json"
                         THEN JSONStringify([id \in Ids |->
                                                IF id = "a" THEN <<HiMessage>> ELSE <<>>])
                         ELSE [kind |-> hk, value |-> <<>>]]
    /\ characters = <<>>
    /\ chats = NoChats
    /\ activeCharacterId = NoChar
    /\ isLoading = FALSE
    /\ chatMode = "normal"
    /\ inactivityTimerRef = NullRef
    /\ proactiveGreetingTimerRef = NullRef
    /\ followUpSentRef = FALSE
    /\ timers = {}
    /\ inflight = {}
    /\ ev = [op |-> "init", id |-> NoChar, call |-> "none"]
    /\ ModalClosed
    /\ AnalysisIdle
    /\ SpeechIdle
    /\ notice = NoNotice
    /\ QuizIdle

\* The conversations the load effect hands to setChats: one try block reads
\* both items, the personas first, so a throw of their JSON.parse skips the
\* conversations.
LoadedChats ==
    IF localStorage.characters.kind # "corrupt" /\ localStorage.chats.kind = "json"
    THEN localStorage.chats.value
    ELSE NoChats

\* The personas the load effect hands to setCharacters.
LoadedCharacters ==
    IF localStorage.characters.kind = "json" THEN localStorage.characters.value
    ELSE <<>>

\* The page is loaded: the state is constructed, the load effect and the two
\* save effects run with it, and the render of the loaded state runs the save
\* effects again.
Mount ==
    /\ characters' = LoadedCharacters
    /\ chats' = LoadedChats
    /\ activeCharacterId' = NoChar
    /\ isLoading' = FALSE
    /\ chatMode' = "normal"
    /\ inactivityTimerRef' = NullRef
    /\ proactiveGreetingTimerRef' = NullRef
    /\ followUpSentRef' = FALSE
    /\ timers' = {}
    /\ inflight' = {}
    /\ ev' = Event("mount", NoChar, "none")

StorageNext ==
    \/ Mount /\ SchedulerOnly
    \/ \E id \in Ids : SelectCharacter(id) /\ SchedulerOnly
    \/ \E id \in Ids : handleDeleteCharacter(id) /\ SchedulerOnly
    \/ handleSendMessage(<<"hello">>) /\ SchedulerOnly
    \/ \E c \in inflight : ModelReplies(c, <<"{", "dialogue", "s:hi", "}">>) /\ SchedulerOnly
    \/ \E c \in inflight : ModelCallFails(c) /\ SchedulerOnly

SpecStorage == StorageInit /\ [][StorageNext]_allVars

\* The conversations the item 'chats' of the store holds.
StoredConversations(store) ==
    IF store.chats.kind = "json" THEN store.chats.value ELSE NoChats

\* C29: a load of the page in which the text of the item 'characters' cannot
\* be parsed leaves the conversations of the item 'chats' as they were; the
\* item is not overwritten with an empty map.
C29_FailedPersonaLoadKeepsConversations ==
    [][(ev'.op = "mount" /\ localStorage.characters.kind = "corrupt") =>
          StoredConversations(localStorage') = StoredConversations(localStorage)]_allVars

----------------------------------------------------------------------------
(***************************************************************************)
(* SpecQuiz: DynamicQuizModal, opened from the sidebar; the two calls of   *)
(* the model it awaits are answered with a list of questions, with a       *)
(* persona, or with an error.                                              *)
(***************************************************************************)

\* The questions the model may return: answers are strings of any content.
QuestionPool ==
    { [question |-> "q", answers |-> <<"x", "y">>],
      [question |-> "r", answers |-> <<"", "x">>] }

\* JSON.parse(response.text) of handleGenerateQuizQuestions: a list of at
\* most MaxQuestions questions, possibly empty.
QuestionLists == UNION { [1 .. n -> QuestionPool] : n \in 0 .. MaxQuestions }

\* newCharacter of handleGenerateCharacterFromDynamicQuiz.
GeneratedCharacter ==
    [id |-> "c", name |-> <<"x">>, personality |-> <<"x">>, purpose |-> <<"x">>,
     gender |-> "neutral", language |-> <<"en", "US">>]

\* questions[currentQuestionIndex] is defined.
HasCurrentQuestion == currentQuestionIndex + 1 \in DOMAIN questions

\* The buttons Next and Generate Character with disabled={!selectedAnswer}
\* left out.
AnswerSelectedAlways == TRUE

\* !(!selectedAnswer): answers[currentQuestionIndex] is a non-empty string.
AnswerSelected ==
    /\ currentQuestionIndex \in DOMAIN answers
    /\ answers[currentQuestionIndex] # ""

isLastQuestion == currentQuestionIndex = Len(questions) - 1

\* Object.entries(answers).map(...): the answered questions by ascending
\* index, each with its answer.
formattedAnswers ==
    LET keys == SelectSeq([k \in 1 .. Len(questions) |-> k - 1],
                          LAMBDA i : i \in DOMAIN answers)
    IN  [k \in 1 .. Len(keys) |->
            [question |-> questions[keys[k] + 1].question, answer |-> answers[keys[k]]]]

\* The state of a DynamicQuizModal that is mounted anew (or gone).
FreshQuiz ==
    /\ view' = "concept"
    /\ loadingText' = ""
    /\ concept' = <<>>
    /\ questions' = <<>>
    /\ answers' = NoAnswers
    /\ currentQuestionIndex' = 0
    /\ error' = NoError

\* The calls left when the modal is unmounted: the continuation of a
\* question call only sets state of the modal, that of a character call
\* still runs the handler of App, whatever answers it sent.
Orphaned(calls) ==
    { [c EXCEPT !.mounted = FALSE, !.answers = <<>>] :
          c \in { d \in calls : d.kind = "character" } }

QuizFrame ==
    /\ UNCHANGED vars_but_ev
    /\ UNCHANGED <<analysisVars, speechVars>>
    /\ Persist

\* Sidebar onNewCharacterFromQuiz.
onNewCharacterFromQuiz ==
    /\ ~isDynamicQuizModalOpen
    /\ ~isModalOpen
    /\ isDynamicQuizModalOpen' = TRUE
    /\ FreshQuiz
    /\ ev' = Event("quizOpen", NoChar, "none")
    /\ UNCHANGED <<quizCalls, modalVars, notice>>
    /\ QuizFrame

\* The close button of DynamicQuizModal.
onCloseQuiz ==
    /\ isDynamicQuizModalOpen
    /\ isDynamicQuizModalOpen' = FALSE
    /\ FreshQuiz
    /\ quizCalls' = Orphaned(quizCalls)
    /\ ev' = Event("quizClose", NoChar, "none")
    /\ UNCHANGED <<modalVars, notice>>
    /\ QuizFrame

\* The textarea of the concept view.
setConcept(text) ==
    /\ isDynamicQuizModalOpen
    /\ view = "concept"
    /\ text # concept
    /\ concept' = text
    /\ ev' = Event("concept", NoChar, "none")
    /\ UNCHANGED <<isDynamicQuizModalOpen, view, loadingText, questions, answers,
                   currentQuestionIndex, error, quizCalls, modalVars, notice>>
    /\ QuizFrame

\* Generate Questions, disabled while the concept is blank.
handleConceptSubmit ==
    /\ isDynamicQuizModalOpen
    /\ view = "concept"
    /\ ~Blank(concept)
    /\ error' = NoError
    /\ view' = "loading"
    /\ loadingText' = "Generating tailored questions..."
    /\ quizCalls' = quizCalls \cup {[kind |-> "questions", mounted |-> TRUE, answers |-> <<>>]}
    /\ ev' = Event("conceptSubmit", NoChar, "none")
    /\ UNCHANGED <<isDynamicQuizModalOpen, concept, questions, answers,
                   currentQuestionIndex, modalVars, notice>>
    /\ QuizFrame

\* onGenerateQuestions resolves with the list qs.
QuestionsReply(c, qs) ==
    /\ c \in quizCalls
    /\ c.kind = "questions"
    /\ quizCalls' = quizCalls \ {c}
    /\ IF Len(qs) > 0
       THEN /\ questions' = qs
            /\ currentQuestionIndex' = 0
            /\ answers' = NoAnswers
            /\ view' = "quiz"
            /\ UNCHANGED error
       ELSE /\ error' = "The AI didn't return any questions. Please try a different concept."
            /\ view' = "concept"
            /\ UNCHANGED <<questions, currentQuestionIndex, answers>>
    /\ ev' = Event("questions", NoChar, "none")
    /\ UNCHANGED <<isDynamicQuizModalOpen, loadingText, concept, modalVars, notice>>
    /\ QuizFrame

\* An answer button of the current question.
handleAnswerSelect(answer) ==
    /\ isDynamicQuizModalOpen
    /\ view = "quiz"
    /\ HasCurrentQuestion
    /\ \E k \in DOMAIN questions[currentQuestionIndex + 1].answers :
          questions[currentQuestionIndex + 1].answers[k] = answer
    /\ answers' = [i \in DOMAIN answers \cup {currentQuestionIndex} |->
                      IF i = currentQuestionIndex THEN answer ELSE answers[i]]
    /\ ev' = Event("answer", NoChar, "none")
    /\ UNCHANGED <<isDynamicQuizModalOpen, view, loadingText, concept, questions,
                   currentQuestionIndex, error, quizCalls, modalVars, notice>>
    /\ QuizFrame

\* Next, shown on every question but the last.
handleNext ==
    /\ isDynamicQuizModalOpen
    /\ view = "quiz"
    /\ HasCurrentQuestion
    /\ ~isLastQuestion
    /\ AnswerSelected
    /\ currentQuestionIndex' =
           IF currentQuestionIndex < Len(questions) - 1 THEN currentQuestionIndex + 1
           ELSE currentQuestionIndex
    /\ ev' = Event("next", NoChar, "none")
    /\ UNCHANGED <<isDynamicQuizModalOpen, view, loadingText, concept, questions,
                   answers, error, quizCalls, modalVars, notice>>
    /\ QuizFrame

\* Back, disabled on the first question.
handleBack ==
    /\ isDynamicQuizModalOpen
    /\ view = "quiz"
    /\ HasCurrentQuestion
    /\ currentQuestionIndex # 0
    /\ currentQuestionIndex' =
           IF currentQuestionIndex > 0 THEN currentQuestionIndex - 1
           ELSE currentQuestionIndex
    /\ ev' = Event("back", NoChar, "none")
    /\ UNCHANGED <<isDynamicQuizModalOpen, view, loadingText, concept, questions,
                   answers, error, quizCalls, modalVars, notice>>
    /\ QuizFrame

\* Generate Character, shown on the last question.
handleGenerateCharacter ==
    /\ isDynamicQuizModalOpen
    /\ view = "quiz"
    /\ HasCurrentQuestion
    /\ isLastQuestion
    /\ AnswerSelected
    /\ view' = "loading"
    /\ loadingText' = "Crafting your character..."
    /\ quizCalls' = quizCalls \cup
           {[kind |-> "character", mounted |-> TRUE, answers |-> formattedAnswers]}
    /\ ev' = Event("generate", NoChar, "none")
    /\ UNCHANGED <<isDynamicQuizModalOpen, concept, questions, answers,
                   currentQuestionIndex, error, modalVars, notice>>
    /\ QuizFrame

\* handleGenerateCharacterFromDynamicQuiz resolves: App closes the quiz
\* and opens CharacterModal on the new persona.
CharacterReply(c) ==
    /\ c \in quizCalls
    /\ c.kind = "character"
    /\ editingCharacter' = GeneratedCharacter
    /\ isDynamicQuizModalOpen' = FALSE
    /\ isModalOpen' = TRUE
    /\ form' = FormOf(GeneratedCharacter)
    /\ FreshQuiz
    /\ quizCalls' = Orphaned(quizCalls \ {c})
    /\ ev' = Event("generated", NoChar, "none")
    /\ UNCHANGED notice
    /\ QuizFrame

\* The catch of handleConceptSubmit or of handleGenerateCharacter: the call
\* c throws; a modal that is gone shows nothing.
QuizCallFails(c) ==
    /\ c \in quizCalls
    /\ quizCalls' = quizCalls \ {c}
    /\ IF c.mounted
       THEN /\ error' = "An unknown error occurred."
            /\ view' = IF c.kind = "questions" THEN "concept" ELSE "quiz"
       ELSE UNCHANGED <<error, view>>
    /\ ev' = Event("quizFailed", NoChar, c.kind)
    /\ UNCHANGED <<isDynamicQuizModalOpen, loadingText, concept, questions, answers,
                   currentQuestionIndex, modalVars, notice>>
    /\ QuizFrame

QuizNext ==
    \/ onNewCharacterFromQuiz
    \/ onCloseQuiz
    \/ \E text \in { <<>>, <<" ">>, <<"x">> } : setConcept(text)
    \/ handleConceptSubmit
    \/ \E c \in quizCalls, qs \in QuestionLists : QuestionsReply(c, qs)
    \/ \E answer \in {"", "x", "y"} : handleAnswerSelect(answer)
    \/ handleNext
    \/ handleBack
    \/ handleGenerateCharacter
    \/ \E c \in quizCalls : CharacterReply(c)
    \/ \E c \in quizCalls : QuizCallFails(c)

SpecQuiz == Init /\ [][QuizNext]_allVars

\* Every question of the quiz has a recorded answer.
AllAnswered == DOMAIN answers = 0 .. Len(questions) - 1

\* C30: in the quiz view the index of the current question is within
\* 0 .. (number of questions - 1); character generation is invoked only when
\* every question has a recorded answer, and sends one answer per question;
\* when the generation call of the mounted modal fails, the modal is back in
\* the quiz view with the questions, the answers and the index it had.
C30_QuizAnswersCompleteAndKept ==
    [][
        /\ (isDynamicQuizModalOpen' /\ view' = "quiz") =>
              currentQuestionIndex' \in 0 .. Len(questions') - 1
        /\ ev'.op = "generate" =>
              /\ AllAnswered
              /\ \A c \in quizCalls' \ quizCalls : Len(c.answers) = Len(questions)
        /\ (ev'.op = "quizFailed" /\ \E c \in quizCalls \ quizCalls' :
                                         c.kind = "character" /\ c.mounted) =>
              /\ view' = "quiz"
              /\ isDynamicQuizModalOpen'
              /\ <<questions, answers, currentQuestionIndex>>' =
                     <<questions, answers, currentQuestionIndex>>
              /\ AllAnswered'
       ]_allVars

\* The generation for a quiz of two or more questions, all answered, has
\* failed; the modal shows the last question of the quiz and the error.
C30_Witness ==
    /\ ev = Event("quizFailed", NoChar, "character")
    /\ isDynamicQuizModalOpen
    /\ view = "quiz"
    /\ Len(questions) >= 2
    /\ AllAnswered
    /\ answers[0] = "y"
    /\ currentQuestionIndex = Len(questions) - 1
    /\ error = "An unknown error occurred."

====
